---- MODULE Spec2Model ----
(***************************************************************************)
(* Model of lib/packagers/yarn2.js, the Yarn 2 packager of                 *)
(* serverless-webpack: getProdDependencies, rebaseLockfile, install,       *)
(* prune and runScripts, together with the process runner, line splitter   *)
(* and JSON line parser of lib/utils.js that they call.                    *)
(*                                                                         *)
(* Text is modelled as a sequence of one-character strings wherever the    *)
(* code looks inside it (locators, lockfiles), and as a sequence of        *)
(* tokens (a newline, or the text of one JSON value or of one piece of     *)
(* garbage) where the code only splits it into lines and parses them       *)
(* (process output).  JavaScript values are tagged records.                *)
(***************************************************************************)
EXTENDS Integers, Sequences, FiniteSets, TLC

VARIABLES
  platform,   \* process.platform
  op,         \* the method of Yarn2 that was called ("none" before the call)
  input,      \* its arguments
  pc,         \* position of the call in its promise chain
  idx,        \* runScripts: number of scripts mapSeries has completed
  spawned,    \* every Utils.spawnProcess invocation so far, in order
  running,    \* indices into spawned of the child processes still alive
  events,     \* history: process starts and closes, and the parse stage starting
  val,        \* value flowing down the promise chain
  result,     \* settlement of the promise returned to the caller
  console     \* what console.log has printed

vars == <<platform, op, input, pc, idx, spawned, running, events, val, result, console>>

----------------------------------------------------------------------------
(* Bounds of the explored inputs. *)

MaxScripts == 3
MaxLines == 3
MaxFrags == 3

----------------------------------------------------------------------------
(* JavaScript values. *)

Undefined == [t |-> "undefined"]
Null == [t |-> "null"]
Bool(b) == [t |-> "boolean", b |-> b]
Num(n) == [t |-> "number", n |-> n]
Str(s) == [t |-> "string", s |-> s]
Arr(items) == [t |-> "array", items |-> items]
Obj(f) == [t |-> "object", f |-> f]

\* ToBoolean of a value.
Truthy(v) ==
  CASE v.t = "undefined" -> FALSE
    [] v.t = "null" -> FALSE
    [] v.t = "boolean" -> v.b
    [] v.t = "number" -> v.n # 0
    [] v.t = "string" -> v.s # <<>>
    [] OTHER -> TRUE

\* lodash _.isEmpty: true of null, undefined, numbers and booleans, and of
\* strings, arrays and objects without elements.
IsEmpty(v) ==
  CASE v.t = "string" -> v.s = <<>>
    [] v.t = "array" -> v.items = <<>>
    [] v.t = "object" -> DOMAIN v.f = {}
    [] OTHER -> TRUE

\* v[name] for a value v that is neither null nor undefined.
Get(v, name) ==
  IF v.t = "object" /\ name \in DOMAIN v.f THEN v.f[name] ELSE Undefined

\* Property access throws a TypeError on null and undefined.
Nullish(v) == v.t \in {"undefined", "null"}

Pending == [state |-> "pending"]
Resolved(v) == [state |-> "resolved", value |-> v]
Rejected(e) == [state |-> "rejected", reason |-> e]
TypeError == [kind |-> "TypeError"]

----------------------------------------------------------------------------
(* Utils.spawnProcess: the process runner.  A child closes with exit code  *)
(* 0 (the promise resolves with its output), closes with another exit code *)
(* (it rejects with a SpawnError carrying the output), or fails to start   *)
(* (it rejects with the error of the 'error' event, which carries none).   *)

Platforms == {"linux", "win32"}
Cwds == {"/service"}

\* /^win/.test(process.platform) ? 'yarn.cmd' : 'yarn'
Command(p) == IF p = "win32" THEN "yarn.cmd" ELSE "yarn"

Invocation(cmd, args, cwd) == [command |-> cmd, args |-> args, cwd |-> cwd]

ProcessOutput(out, err) == [kind |-> "ok", stdout |-> out, stderr |-> err]
SpawnError(i, out, err) == [kind |-> "SpawnError", from |-> i, stdout |-> out, stderr |-> err]
StartError(i) == [kind |-> "Error", from |-> i]

\* Tokens of process output.
NL == [tok |-> "\n"]
Text(v) == [tok |-> "text", json |-> FALSE, v |-> v]
Json(v) == [tok |-> "text", json |-> TRUE, v |-> v]
Garbage == [tok |-> "text", json |-> FALSE, v |-> Undefined]

\* Output of a script or install run.
PlainOutputs == {<<>>, <<Garbage, NL>>}

SpawnProcess(cmd, args, cwd) ==
  /\ spawned' = Append(spawned, Invocation(cmd, args, cwd))
  /\ running' = running \cup {Len(spawned) + 1}
  /\ events' = Append(events, [e |-> "start", proc |-> Len(spawned) + 1])

\* The outcomes a child can close with: outs is what it may have written to
\* stdout, errs what a failing child may have written to stderr.
Outcomes(i, outs, errs) ==
  {ProcessOutput(o, <<>>) : o \in outs}
    \cup {SpawnError(i, o, e) : o \in outs, e \in errs}
    \cup {StartError(i)}

ProcessClose(i, outcome) ==
  /\ i \in running
  /\ running' = running \ {i}
  /\ events' = Append(events, [e |-> "close", proc |-> i, ok |-> outcome.kind = "ok",
                                outcome |-> outcome])

----------------------------------------------------------------------------
(* runScripts *)

ScriptNames == {"a", "b", "c"}

SeqsUpTo(S, n) == UNION {[1..k -> S] : k \in 0..n}

ContinueAfterFailure(outcome) == "iterate"

\* BbPromise.mapSeries: a rejected mapper promise rejects the whole series,
\* a fulfilled one lets the iteration go on.
MapSeriesAfter(outcome) == IF outcome.kind = "ok" THEN "iterate" ELSE "done"

StartAll(alive) == TRUE

\* BbPromise.mapSeries calls the mapper for the next item only once the
\* promise the mapper returned for the previous item has been fulfilled.
MapSeriesReady(alive) == alive = {}

RunScripts(cwd, scriptNames) ==
  /\ op = "none"
  /\ op' = "runScripts"
  /\ input' = [cwd |-> cwd, scriptNames |-> scriptNames]
  /\ pc' = "iterate"
  /\ idx' = 0
  /\ UNCHANGED <<platform, spawned, running, events, val, result, console>>

\* The mapper: scriptName => Utils.spawnProcess(command, ['run', scriptName], { cwd })
ScriptSpawn ==
  /\ op = "runScripts" /\ pc = "iterate"
  /\ Len(spawned) < Len(input.scriptNames)
  /\ MapSeriesReady(running)
  /\ SpawnProcess(Command(platform), <<"run", input.scriptNames[Len(spawned) + 1]>>, input.cwd)
  /\ UNCHANGED <<platform, op, input, pc, idx, val, result, console>>

ScriptClose ==
  /\ op = "runScripts" /\ pc = "iterate"
  /\ \E i \in running : \E outcome \in Outcomes(i, PlainOutputs, {<<>>}) :
       /\ ProcessClose(i, outcome)
       /\ pc' = MapSeriesAfter(outcome)
       /\ IF outcome.kind = "ok"
            THEN /\ idx' = idx + 1
                 /\ UNCHANGED result
            ELSE /\ result' = Rejected(outcome)
                 /\ UNCHANGED idx
  /\ UNCHANGED <<platform, op, input, spawned, val, console>>

\* Every mapper promise is fulfilled: .return() resolves with undefined.
ScriptsDone ==
  /\ op = "runScripts" /\ pc = "iterate"
  /\ idx = Len(input.scriptNames)
  /\ pc' = "done"
  /\ result' = Resolved(Undefined)
  /\ UNCHANGED <<platform, op, input, idx, spawned, running, events, val, console>>

InitCommon ==
  /\ platform \in Platforms
  /\ op = "none"
  /\ input = Undefined
  /\ pc = "idle"
  /\ idx = 0
  /\ spawned = <<>>
  /\ running = {}
  /\ events = <<>>
  /\ val = Undefined
  /\ result = Pending
  /\ console = <<>>

NextScripts ==
  \/ \E cwd \in Cwds : \E names \in SeqsUpTo(ScriptNames, MaxScripts) : RunScripts(cwd, names)
  \/ ScriptSpawn
  \/ ScriptClose
  \/ ScriptsDone

SpecScripts == InitCommon /\ [][NextScripts]_vars

----------------------------------------------------------------------------
(* getProdDependencies: text helpers *)

\* Index of the first element of s equal to sep, 0 when there is none.
RECURSIVE IndexOf(_, _, _)
IndexOf(s, sep, from) ==
  IF from > Len(s) THEN 0
  ELSE IF s[from] = sep THEN from
  ELSE IndexOf(s, sep, from + 1)

\* _.split(string, separator) with a one-element separator: always at least
\* one piece, the pieces never hold the separator.
RECURSIVE Split(_, _)
Split(s, sep) ==
  LET i == IndexOf(s, sep, 1) IN
    IF i = 0 THEN <<s>>
    ELSE <<SubSeq(s, 1, i - 1)>> \o Split(SubSeq(s, i + 1, Len(s)), sep)

\* Utils.splitLines: _.split(str, /\r?\n/)
SplitLines(str) == Split(str, NL)

\* Utils.safeJsonParse: JSON.parse, with null for text that does not parse.
\* A line parses when it is the text of exactly one JSON value.
SafeJsonParse(line) ==
  IF Len(line) = 1 /\ line[1].json THEN line[1].v ELSE Null

KeepEveryLine(line) == TRUE

\* line => !_.isEmpty(line)
KeepLine(line) == ~IsEmpty(line)

RECURSIVE Filter(_, _)
Filter(s, n) ==
  IF n = 0 THEN <<>>
  ELSE IF KeepLine(s[n]) THEN Append(Filter(s, n - 1), s[n])
  ELSE Filter(s, n - 1)

\* The parse stage: split, parse each line, drop the empty values.
ParseLines(stdout) ==
  LET lines == SplitLines(stdout)
      parsedLines == [i \in 1..Len(lines) |-> SafeJsonParse(lines[i])]
  IN Filter(parsedLines, Len(parsedLines))

----------------------------------------------------------------------------
(* getProdDependencies: the conversion stage *)

\* JavaScript objects used as maps: functions from keys (texts) to values.
EmptyObject == <<>>
Put(o, k, v) == [x \in (DOMAIN o) \cup {k} |-> IF x = k THEN v ELSE o[x]]
Lookup(o, k) == IF k \in DOMAIN o THEN o[k] ELSE Undefined

\* String(v) for a property key: obj[undefined] is obj["undefined"].
PropertyKey(v) ==
  CASE v.t = "string" -> v.s
    [] v.t = "undefined" -> <<"u", "n", "d", "e", "f", "i", "n", "e", "d">>
    [] v.t = "null" -> <<"n", "u", "l", "l">>
    [] OTHER -> <<"[object]">>

\* lodash toString, as _.split and _.startsWith apply it: '' for null and
\* undefined.
ToText(v) == IF v.t = "string" THEN v.s ELSE <<>>

\* A step that may throw a TypeError.
Throw == [throw |-> TRUE]
Ok(v) == [throw |-> FALSE, v |-> v]

\* The module name is the key of the versions index.
VersionKeyByName(item) ==
  LET str == ToText(Get(item, "value")) IN Split(str, "@")[1]

\* versions[item.value] = ...
VersionKey(item) == PropertyKey(Get(item, "value"))

\* const versions = {}; _.forEach(parsedValues, item => { versions[item.value] =
\* item.children.Version; });  item.children.Version throws when item.children
\* is undefined or null.
RECURSIVE Versions(_, _)
Versions(parsedValues, n) ==
  IF n = 0 THEN Ok(EmptyObject)
  ELSE LET prev == Versions(parsedValues, n - 1)
           item == parsedValues[n]
       IN IF prev.throw THEN prev
          ELSE IF Nullish(item) THEN Throw
          ELSE IF Nullish(Get(item, "children")) THEN Throw
          ELSE Ok(Put(prev.v, VersionKey(item), Get(Get(item, "children"), "Version")))

FirstFragment(locator) == Split(ToText(locator), "@")[1]

\* const splitModule = _.split(data[path], '@'); a scoped module gets its @
\* back: splice(0, 1), then '@' + splitModule[0]; the name is _.first(splitModule).
ModuleName(locator) ==
  LET str == ToText(locator)
      splitModule == Split(str, "@")
  IN IF str # <<>> /\ str[1] = "@"
       THEN <<"@">> \o splitModule[2]
       ELSE splitModule[1]

\* convertValues(values, path): _.reduce over the entries; _.reduce of
\* undefined is the initial accumulator {}.
RECURSIVE ConvertValues(_, _, _)
RECURSIVE ConvertItems(_, _, _, _)
ConvertItems(items, n, path, versions) ==
  IF n = 0 THEN Ok(EmptyObject)
  ELSE LET prev == ConvertItems(items, n - 1, path, versions)
           data == items[n]
       IN IF prev.throw THEN prev
          ELSE IF Nullish(data) THEN Throw
          ELSE LET children == Get(data, "children")
                   deps == IF Truthy(children)
                             THEN ConvertValues(Get(children, "Dependencies"), "locator", versions)
                             ELSE Ok(EmptyObject)
               IN IF deps.throw THEN Throw
                  ELSE Ok(Put(prev.v, ModuleName(Get(data, path)),
                              [version |-> Lookup(versions, PropertyKey(Get(data, path))),
                               dependencies |-> deps.v]))

ConvertValues(values, path, versions) ==
  IF values.t = "array"
    THEN ConvertItems(values.items, Len(values.items), path, versions)
    ELSE Ok(EmptyObject)

\* The last .then of the chain: the versions index, then the result.
Convert(parsedValues) ==
  LET versions == Versions(parsedValues, Len(parsedValues)) IN
    IF versions.throw THEN Rejected(TypeError)
    ELSE LET dependencies == ConvertValues(Arr(parsedValues), "value", versions.v) IN
      IF dependencies.throw THEN Rejected(TypeError)
      ELSE Resolved([problems |-> <<>>, dependencies |-> dependencies.v])

----------------------------------------------------------------------------
(* getProdDependencies: the failure handler *)

\* const ignoredYarnErrors = [];
IgnoredYarnErrors == {}

\* !_.isEmpty(error) && !_.some(ignoredYarnErrors, ignoredError =>
\*   _.startsWith(error, `npm ERR! ${ignoredError.npmError}`))
CriticalLine(error) ==
  /\ error # <<>>
  /\ ~ \E ignoredError \in IgnoredYarnErrors : error[1] = ignoredError

\* The reduce over _.split(err.stderr, '\n').
Failed(stderr) ==
  LET errors == Split(stderr, NL) IN
    \E i \in 1..Len(errors) : CriticalLine(errors[i])

RecoverableIgnoringStderr(err) ==
  /\ err.kind = "SpawnError"
  /\ err.stdout # <<>>

\* err instanceof Utils.SpawnError, !failed && !_.isEmpty(err.stdout)
Recoverable(err) ==
  /\ err.kind = "SpawnError"
  /\ ~Failed(err.stderr)
  /\ err.stdout # <<>>

----------------------------------------------------------------------------
(* getProdDependencies: what `yarn info --recursive --json` may print *)

LocA1 == Str(<<"a", "@", "1">>)
LocA2 == Str(<<"a", "@", "2">>)
LocB1 == Str(<<"b", "@", "1">>)
LocScopedA == Str(<<"@", "s", "/", "a", "@", "1">>)
\* @s/b@^1::l=r%40w
LocScopedB ==
  Str(<<"@", "s", "/", "b", "@", "^", "1", ":", ":", "l", "=", "r", "%", "4", "0", "w">>)

Version(v) == Str(<<v>>)

Entry(value, children) == Obj([value |-> value, children |-> children])
Dep(locator) == Obj([locator |-> locator])

\* {"value":"a@1","children":{"Version":"1.0.0"}}
RecA1 == Entry(LocA1, Obj([Version |-> Version("1.0.0")]))
\* {"value":"a@2","children":{"Version":"2.0.0","Dependencies":[{"locator":"b@1"}]}}
RecA2 == Entry(LocA2, Obj([Version |-> Version("2.0.0"), Dependencies |-> Arr(<<Dep(LocB1)>>)]))
\* a scoped entry whose dependencies nest two levels deep
RecScopedA ==
  Entry(LocScopedA,
        Obj([Version |-> Version("3.0.0"),
             Dependencies |->
               Arr(<<Dep(LocA1),
                     Obj([locator |-> LocScopedB,
                          children |-> Obj([Dependencies |-> Arr(<<Dep(LocA2)>>)])])>>)]))
\* {"value":"@s/b@^1::l=r%40w","children":{"Dependencies":[{"locator":"a@1"}]}}:
\* no Version
RecNoVersion == Entry(LocScopedB, Obj([Dependencies |-> Arr(<<Dep(LocA1)>>)]))
\* {"value":"b@1"}: no children
RecNoChildren == Obj([value |-> LocB1])

\* The text of one line: nothing, garbage, or the text of one JSON value.
LineTexts ==
  {<<>>, <<Garbage>>, <<Json(Num(5))>>, <<Json(Str(<<"x">>))>>,
   <<Json(RecA1)>>, <<Json(RecA2)>>, <<Json(RecScopedA)>>,
   <<Json(RecNoVersion)>>, <<Json(RecNoChildren)>>}

RECURSIVE JoinLines(_, _)
JoinLines(lines, n) ==
  IF n = 1 THEN lines[1] ELSE JoinLines(lines, n - 1) \o <<NL>> \o lines[n]

\* Every text of 1..MaxLines lines.
Stdouts ==
  {JoinLines(lines, Len(lines)) : lines \in UNION {[1..k -> LineTexts] : k \in 1..MaxLines}}

Stderrs == {<<>>, <<NL>>, <<Garbage, NL>>}

----------------------------------------------------------------------------
(* getProdDependencies: the promise chain *)

GetProdDependencies(cwd) ==
  /\ op = "none"
  /\ op' = "getProdDependencies"
  /\ input' = [cwd |-> cwd]
  /\ pc' = "listing"
  /\ SpawnProcess(Command(platform), <<"info", "--recursive", "--json">>, cwd)
  /\ UNCHANGED <<platform, idx, val, result, console>>

\* The child closes: the promise of Utils.spawnProcess settles.
ListingClose ==
  /\ op = "getProdDependencies" /\ pc = "listing"
  /\ \E i \in running : \E outcome \in Outcomes(i, Stdouts, Stderrs) :
       /\ ProcessClose(i, outcome)
       /\ val' = outcome
       /\ pc' = IF outcome.kind = "ok" THEN "parse" ELSE "catch"
  /\ UNCHANGED <<platform, op, input, idx, spawned, result, console>>

\* .catch(err => ...): resolve with the partial stdout or reject with err.
ListingCatch ==
  /\ op = "getProdDependencies" /\ pc = "catch"
  /\ IF Recoverable(val)
       THEN /\ val' = [stdout |-> val.stdout]
            /\ pc' = "parse"
            /\ UNCHANGED result
       ELSE /\ result' = Rejected(val)
            /\ pc' = "done"
            /\ UNCHANGED val
  /\ UNCHANGED <<platform, op, input, idx, spawned, running, events, console>>

\* .then(processOutput => processOutput.stdout).then(stdout => BbPromise.try(...))
ListingParse ==
  /\ op = "getProdDependencies" /\ pc = "parse"
  /\ val' = ParseLines(val.stdout)
  /\ pc' = "convert"
  /\ events' = Append(events, [e |-> "parse"])
  /\ UNCHANGED <<platform, op, input, idx, spawned, running, result, console>>

\* .then(parsedValues => ...)
ListingConvert ==
  /\ op = "getProdDependencies" /\ pc = "convert"
  /\ result' = Convert(val)
  /\ pc' = "done"
  /\ UNCHANGED <<platform, op, input, idx, spawned, running, events, val, console>>

NextDeps ==
  \/ \E cwd \in Cwds : GetProdDependencies(cwd)
  \/ ListingClose
  \/ ListingCatch
  \/ ListingParse
  \/ ListingConvert

SpecDeps == InitCommon /\ [][NextDeps]_vars

----------------------------------------------------------------------------
(* install and prune *)

Flags == {Undefined, Bool(FALSE), Bool(TRUE)}
Concurrencies == {Undefined, Num(0), Num(8)}

PackagerOptions ==
  [noFrozenLockfile : Flags, ignoreScripts : Flags, networkConcurrency : Concurrencies]

AlwaysFrozenArgs(packagerOptions) ==
  <<"install", "--frozen-lockfile">>
    \o (IF Truthy(packagerOptions.ignoreScripts) THEN <<"--ignore-scripts">> ELSE <<>>)
    \o (IF Truthy(packagerOptions.networkConcurrency)
          THEN <<"--network-concurrency " \o ToString(packagerOptions.networkConcurrency.n)>>
          ELSE <<>>)

\* const args = ['install']; and the three conditional pushes.
InstallArgs(packagerOptions) ==
  <<"install">>
    \o (IF ~Truthy(packagerOptions.noFrozenLockfile) THEN <<"--frozen-lockfile">> ELSE <<>>)
    \o (IF Truthy(packagerOptions.ignoreScripts) THEN <<"--ignore-scripts">> ELSE <<>>)
    \o (IF Truthy(packagerOptions.networkConcurrency)
          THEN <<"--network-concurrency " \o ToString(packagerOptions.networkConcurrency.n)>>
          ELSE <<>>)

Install(cwd, packagerOptions) ==
  /\ input' = [cwd |-> cwd, packagerOptions |-> packagerOptions]
  /\ pc' = "installing"
  /\ SpawnProcess(Command(platform), InstallArgs(packagerOptions), cwd)
  /\ UNCHANGED <<platform, idx, val, result, console>>

CallInstall(cwd, packagerOptions) ==
  /\ op = "none"
  /\ op' = "install"
  /\ Install(cwd, packagerOptions)

\* return Yarn2.install(cwd, packagerOptions);
Prune(cwd, packagerOptions) ==
  /\ op = "none"
  /\ op' = "prune"
  /\ Install(cwd, packagerOptions)

\* .return() on success; on failure log a non-empty err.stdout and reject.
InstallClose ==
  /\ op \in {"install", "prune"} /\ pc = "installing"
  /\ \E i \in running : \E outcome \in Outcomes(i, PlainOutputs, {<<>>}) :
       /\ ProcessClose(i, outcome)
       /\ result' = IF outcome.kind = "ok" THEN Resolved(Undefined) ELSE Rejected(outcome)
       /\ console' = IF outcome.kind = "SpawnError" /\ outcome.stdout # <<>>
                       THEN Append(console, outcome.stdout)
                       ELSE console
  /\ pc' = "done"
  /\ UNCHANGED <<platform, op, input, idx, spawned, val>>

NextInstall ==
  \/ \E cwd \in Cwds : \E o \in PackagerOptions : CallInstall(cwd, o)
  \/ \E cwd \in Cwds : \E o \in PackagerOptions : Prune(cwd, o)
  \/ InstallClose

SpecInstall == InitCommon /\ [][NextInstall]_vars

----------------------------------------------------------------------------
(* rebaseLockfile *)

\* Characters the pattern tells apart.
Terminators == {"\"", ":", ","}
LineBreaks == {"\n", "\r"}

HasAt(s, i, piece) ==
  /\ i + Len(piece) - 1 <= Len(s)
  /\ SubSeq(s, i, i + Len(piece) - 1) = piece

\* Index of the first character at or after from that ends the lazy .*?:
\* a terminator, or a line break, which . does not match; 0 at the end of text.
RECURSIVE LazyEnd(_, _)
LazyEnd(s, from) ==
  IF from > Len(s) THEN 0
  ELSE IF s[from] \in Terminators \cup LineBreaks THEN from
  ELSE LazyEnd(s, from + 1)

NoMatch == [found |-> FALSE]

\* /[^"/]@(?:file:)?((?:\.\/|\.\.\/).*?)[":,]/ tried at position i: the
\* captured group and the index after the match.
MatchAt(s, i) ==
  IF ~(i + 1 <= Len(s) /\ s[i] \notin {"\"", "/"} /\ s[i + 1] = "@") THEN NoMatch
  ELSE
    LET j == IF HasAt(s, i + 2, <<"f", "i", "l", "e", ":">>) THEN i + 7 ELSE i + 2
        body == IF HasAt(s, j, <<".", "/">>) THEN j + 2
                ELSE IF HasAt(s, j, <<".", ".", "/">>) THEN j + 3
                ELSE 0
        e == IF body = 0 THEN 0 ELSE LazyEnd(s, body)
    IN IF e # 0 /\ s[e] \in Terminators
         THEN [found |-> TRUE, ref |-> SubSeq(s, j, e - 1), next |-> e + 1]
         ELSE NoMatch

\* String.prototype.replace(/\\/g, '/')
Slashes(s) == [i \in 1..Len(s) |-> IF s[i] = "\\" THEN "/" ELSE s[i]]

\* The while loop over fileVersionMatcher.exec(lockfile): the matches from
\* lastIndex on, leftmost first, each resuming after the previous one.
RECURSIVE Replacements(_, _, _)
Replacements(pathToPackageRoot, lockfile, lastIndex) ==
  IF lastIndex > Len(lockfile) THEN <<>>
  ELSE LET m == MatchAt(lockfile, lastIndex) IN
    IF m.found
      THEN <<[oldRef |-> m.ref, newRef |-> Slashes(pathToPackageRoot \o <<"/">> \o m.ref)]>>
             \o Replacements(pathToPackageRoot, lockfile, m.next)
      ELSE Replacements(pathToPackageRoot, lockfile, lastIndex + 1)

\* Index of the first occurrence of piece in s at or after from, 0 if none.
RECURSIVE Find(_, _, _)
Find(s, piece, from) ==
  IF from + Len(piece) - 1 > Len(s) THEN 0
  ELSE IF HasAt(s, from, piece) THEN from
  ELSE Find(s, piece, from + 1)

\* Every occurrence, left to right, the text put in not being searched again.
RECURSIVE ReplaceEvery(_, _, _)
ReplaceEvery(s, oldRef, newRef) ==
  LET i == Find(s, oldRef, 1) IN
    IF i = 0 THEN s
    ELSE SubSeq(s, 1, i - 1) \o newRef
           \o ReplaceEvery(SubSeq(s, i + Len(oldRef), Len(s)), oldRef, newRef)

\* _.replace(string, pattern, replacement) with a string pattern is
\* String.prototype.replace: the first occurrence only.  (No text here holds
\* a $, which the replacement would interpret.)
Replace(s, oldRef, newRef) ==
  LET i == Find(s, oldRef, 1) IN
    IF i = 0 THEN s
    ELSE SubSeq(s, 1, i - 1) \o newRef \o SubSeq(s, i + Len(oldRef), Len(s))

\* _.reduce(replacements, (__, replacement) => _.replace(...), lockfile)
RECURSIVE Reduce(_, _, _)
Reduce(replacements, n, lockfile) ==
  IF n = 0 THEN lockfile
  ELSE Replace(Reduce(replacements, n - 1, lockfile),
               replacements[n].oldRef, replacements[n].newRef)

RebaseLockfile(pathToPackageRoot, lockfile) ==
  LET replacements == Replacements(pathToPackageRoot, lockfile, 1) IN
    Reduce(replacements, Len(replacements), lockfile)

\* Pieces of lockfile text.
Fragments ==
  { <<"a", "@", "f", "i", "l", "e", ":", ".", ".", "/", "x", "\"">>,   \* a@file:../x"
    <<"b", "@", ".", ".", "/", "x", ":">>,                             \* b@../x:
    <<"c", "@", ".", "/", "y", ",">>,                                  \* c@./y,
    <<" ", ".", ".", "/", "x", "\n">>,                                 \* a bare ../x
    <<"/", "@", ".", ".", "/", "x", "\"">>,                            \* /@../x"
    <<"d", "@", ".", "/", "y", "\\", "z", "\"">>,                      \* d@./y\z"
    <<"e", "@", ".", ".", "/", "x", "\n">> }                           \* e@../x, line ends

RECURSIVE Concat(_, _)
Concat(pieces, n) == IF n = 0 THEN <<>> ELSE Concat(pieces, n - 1) \o pieces[n]

Lockfiles == {Concat(pieces, Len(pieces)) : pieces \in SeqsUpTo(Fragments, MaxFrags)}

PathsToRoot == {<<"p">>, <<"p", "\\", "q">>}

InitRebase ==
  /\ platform = "linux"
  /\ op = "rebaseLockfile"
  /\ \E pathToPackageRoot \in PathsToRoot : \E lockfile \in Lockfiles :
       input = [pathToPackageRoot |-> pathToPackageRoot, lockfile |-> lockfile]
  /\ pc = "called"
  /\ idx = 0
  /\ spawned = <<>>
  /\ running = {}
  /\ events = <<>>
  /\ val = Undefined
  /\ result = Pending
  /\ console = <<>>

Rebase ==
  /\ op = "rebaseLockfile" /\ pc = "called"
  /\ result' = Resolved(RebaseLockfile(input.pathToPackageRoot, input.lockfile))
  /\ pc' = "done"
  /\ UNCHANGED <<platform, op, input, idx, spawned, running, events, val, console>>

NextRebase == Rebase

SpecRebase == InitRebase /\ [][NextRebase]_vars

----------------------------------------------------------------------------
(* Properties of runScripts *)

Starts == SelectSeq(events, LAMBDA x : x.e = "start")
Closes == SelectSeq(events, LAMBDA x : x.e = "close")
FailedCloses == {j \in 1..Len(events) : events[j].e = "close" /\ ~events[j].ok}

\* C1: runScripts stops at the first failure.  Once the process of the script
\* at position k has failed, exactly the scripts at positions 1..k have been
\* invoked, in list order, each of the k-1 before it having succeeded, no
\* further script is ever invoked, and the call is rejected with the error of
\* script k.
C1_StopsAtFirstFailure ==
  op = "runScripts" =>
    \A j \in FailedCloses :
      LET k == events[j].proc IN
        /\ Len(spawned) = k
        /\ \A i \in 1..k :
             /\ spawned[i].args = <<"run", input.scriptNames[i]>>
             /\ Starts[i].proc = i
        /\ \A i \in 1..(k - 1) : Closes[i].proc = i /\ Closes[i].ok
        /\ Len(Closes) = k
        /\ result = Rejected(events[j].outcome)
        /\ result.reason.from = k

\* [a, b, c] with b failing: a then b invoked, c never, b's error surfaced.
C1_Witness ==
  /\ op = "runScripts"
  /\ input.scriptNames = <<"a", "b", "c">>
  /\ pc = "done"
  /\ Len(spawned) = 2
  /\ spawned[2].args = <<"run", "b">>
  /\ result.state = "rejected"
  /\ result.reason.from = 2

\* C2: runScripts never runs two script processes at the same time.  At most
\* one process of the call is alive, the processes are started in list order,
\* and the process for position i+1 is started only after the one for
\* position i has closed.
C2_OneScriptAtATime ==
  op = "runScripts" =>
    /\ Cardinality(running) <= 1
    /\ \A i \in 1..Len(spawned) : spawned[i].args = <<"run", input.scriptNames[i]>>
    /\ \A j \in 1..Len(events) :
         events[j].e = "start" =>
           \A i \in 1..(events[j].proc - 1) :
             \E h \in 1..(j - 1) : events[h].e = "close" /\ events[h].proc = i

\* The third script runs alone after the first two have completed.
C2_Witness ==
  /\ op = "runScripts"
  /\ Len(input.scriptNames) = 3
  /\ running = {3}
  /\ Len(Closes) = 2

----------------------------------------------------------------------------
(* Properties of getProdDependencies *)

DepsDone == op = "getProdDependencies" /\ pc = "done"

\* How the listing process closed, and what it had printed.
ListingOutcome == events[2].outcome
Printed == ListingOutcome.stdout
ParseReached == \E j \in 1..Len(events) : events[j].e = "parse"

\* A line that does not parse to a non-empty JSON value.
GarbageLine(line) ==
  \/ Len(line) # 1
  \/ ~line[1].json
  \/ line[1].v.t \in {"undefined", "null", "number", "boolean"}
  \/ line[1].v.t = "string" /\ line[1].v.s = <<>>
  \/ line[1].v.t = "array" /\ line[1].v.items = <<>>
  \/ line[1].v.t = "object" /\ DOMAIN line[1].v.f = {}

RecordLines(stdout) == SelectSeq(Split(stdout, NL), LAMBDA line : ~GarbageLine(line))

\* The text with its empty and garbage lines removed.
WithoutGarbage(stdout) ==
  LET kept == RecordLines(stdout) IN
    IF kept = <<>> THEN <<>> ELSE JoinLines(kept, Len(kept))

\* The top-level entries of the listing, in order.
Entries(stdout) ==
  LET kept == RecordLines(stdout) IN [i \in 1..Len(kept) |-> kept[i][1].v]

\* The part of a locator before the version-range @: a leading @ belongs to
\* the scope.
PackageName(locator) ==
  LET c == locator.s
      i == IndexOf(c, "@", IF c # <<>> /\ c[1] = "@" THEN 2 ELSE 1)
  IN IF i = 0 THEN c ELSE SubSeq(c, 1, i - 1)

\* C5: tolerant line skipping.  Whenever the parse stage ran, the settlement
\* of the call (the graph, or the failure malformed records cause) is the one
\* the same stdout gives with its empty and garbage lines removed.
C5_GarbageLinesSkipped ==
  DepsDone /\ ParseReached =>
    result = Convert(ParseLines(WithoutGarbage(Printed)))

C5_Witness ==
  /\ DepsDone /\ ParseReached
  /\ result.state = "resolved"
  /\ Cardinality(DOMAIN result.value.dependencies) = 2
  /\ \E line \in {Split(Printed, NL)[i] : i \in 1..Len(Split(Printed, NL))} :
       line = <<Garbage>>
  /\ Printed # WithoutGarbage(Printed)

\* C7: the keys of dependencies are exactly the top-level package names, with
\* the scope of a scoped locator reconstructed, and problems is empty.
C7_KeysAreTopLevelNames ==
  DepsDone /\ result.state = "resolved" =>
    /\ result.value.problems = <<>>
    /\ DOMAIN result.value.dependencies =
         {PackageName(Get(Entries(Printed)[i], "value")) : i \in 1..Len(Entries(Printed))}

\* @s/a@1 gives @s/a, @s/b@^1::l=r%40w gives @s/b.
C7_Witness ==
  /\ DepsDone /\ result.state = "resolved"
  /\ DOMAIN result.value.dependencies = {<<"@", "s", "/", "a">>, <<"@", "s", "/", "b">>}

Max(S) == CHOOSE x \in S : \A y \in S : y <= x

\* The Version the index records under a locator: that of the last top-level
\* entry whose value is that locator.
IndexAt(entries, locator) ==
  LET S == {i \in 1..Len(entries) : Get(entries[i], "value") = locator} IN
    IF S = {} THEN Undefined
    ELSE Get(Get(entries[Max(S)], "children"), "Version")

DependenciesOf(data) ==
  LET deps == Get(Get(data, "children"), "Dependencies") IN
    IF deps.t = "array" THEN deps.items ELSE <<>>

\* Every node of the map carries the version of its own locator: the node of a
\* name stems from the last item of that name.
RECURSIVE NodesOwnVersion(_, _, _, _)
NodesOwnVersion(map, items, path, entries) ==
  \A name \in DOMAIN map :
    LET S == {i \in 1..Len(items) : PackageName(Get(items[i], path)) = name} IN
      /\ S # {}
      /\ map[name].version = IndexAt(entries, Get(items[Max(S)], path))
      /\ NodesOwnVersion(map[name].dependencies, DependenciesOf(items[Max(S)]),
                         "locator", entries)

\* C8: at every depth, a node's version is the Version the index records under
\* the node's own full locator, and undefined when the index has none for it.
C8_VersionOfOwnLocator ==
  DepsDone /\ result.state = "resolved" =>
    NodesOwnVersion(result.value.dependencies, Entries(Printed), "value", Entries(Printed))

\* a@1 listed before a@2: node a has the version of a@2, and below @s/a the
\* node a has the version of a@1 while @s/b has none.
C8_Witness ==
  /\ DepsDone /\ result.state = "resolved"
  /\ DOMAIN result.value.dependencies = {<<"a">>, <<"@", "s", "/", "a">>}
  /\ result.value.dependencies[<<"a">>].version = Version("2.0.0")
  /\ result.value.dependencies[<<"@", "s", "/", "a">>].dependencies[<<"a">>].version
       = Version("1.0.0")
  /\ result.value.dependencies[<<"@", "s", "/", "a">>].dependencies[<<"@", "s", "/", "b">>].version
       = Undefined

\* A failure of the listing process that the handler does not recover from.
NonRecoverable(err) ==
  /\ err.kind # "ok"
  /\ \/ err.kind # "SpawnError"
     \/ \E i \in 1..Len(Split(err.stderr, NL)) : Split(err.stderr, NL)[i] # <<>>
     \/ err.stdout = <<>>

ListingClosed == op = "getProdDependencies" /\ Len(events) >= 2

\* C10: after a non-recoverable failure the parse stage is never reached, the
\* process is not run again, and the call rejects with the original error.
C10_NonRecoverableRejects ==
  ListingClosed /\ NonRecoverable(ListingOutcome) =>
    /\ ~ParseReached
    /\ pc \in {"catch", "done"}
    /\ Len(spawned) = 1
    /\ pc = "done" => result = Rejected(ListingOutcome)

\* Output on both streams: the stderr line makes the failure final.
C10_Witness ==
  /\ DepsDone
  /\ ListingOutcome.kind = "SpawnError"
  /\ ListingOutcome.stdout # <<>>
  /\ ListingOutcome.stderr = <<Garbage, NL>>
  /\ result = Rejected(ListingOutcome)

\* C3: a SpawnError with empty stderr and non-empty stdout is not propagated;
\* the call resolves with the DependencyGraph parsed from the stdout.
C3_RecoveredListingResolves ==
  DepsDone /\ ListingOutcome.kind = "SpawnError"
           /\ ListingOutcome.stderr = <<>> /\ ListingOutcome.stdout # <<>> =>
    /\ ParseReached
    /\ result.state = "resolved"
    /\ result.value.problems = <<>>

\* C6: the parse stage never throws: whatever the lines of stdout are, the
\* call completes with a DependencyGraph.
C6_ParseNeverThrows ==
  DepsDone /\ ParseReached => result.state = "resolved"

----------------------------------------------------------------------------
(* Properties of install and prune *)

Range(f) == {f[i] : i \in DOMAIN f}

\* C9: install and prune both run `yarn install` once in cwd, with
\* --frozen-lockfile iff noFrozenLockfile is not set, --ignore-scripts iff
\* ignoreScripts is set, --network-concurrency <N> iff networkConcurrency is
\* set (an option is set when it holds a true value: false, 0 and undefined
\* do not count), and nothing else; both resolve with nothing when the
\* process succeeds and reject with its error when it fails.
C9_InstallArguments ==
  op \in {"install", "prune"} =>
    LET o == input.packagerOptions
        args == spawned[1].args
        flags == Range(args) \ {"install"}
    IN /\ Len(spawned) = 1
       /\ spawned[1].command = Command(platform)
       /\ spawned[1].cwd = input.cwd
       /\ args[1] = "install"
       /\ "--frozen-lockfile" \in flags <=> ~Truthy(o.noFrozenLockfile)
       /\ "--ignore-scripts" \in flags <=> Truthy(o.ignoreScripts)
       /\ Truthy(o.networkConcurrency) =>
            ("--network-concurrency " \o ToString(o.networkConcurrency.n)) \in flags
       /\ ~Truthy(o.networkConcurrency) =>
            flags \subseteq {"--frozen-lockfile", "--ignore-scripts"}
       /\ Len(args) = 1 + Cardinality(flags)
       /\ Cardinality(flags) <= 3
       /\ pc = "done" =>
            result = IF events[2].ok THEN Resolved(Undefined) ELSE Rejected(events[2].outcome)

\* prune with noFrozenLockfile, ignoreScripts and networkConcurrency 8, failing.
C9_Witness ==
  /\ op = "prune" /\ pc = "done"
  /\ spawned[1].args = <<"install", "--ignore-scripts", "--network-concurrency 8">>
  /\ result.state = "rejected"

----------------------------------------------------------------------------
(* Properties of rebaseLockfile *)

\* The replacements applied as global substitutions, in discovery order, to
\* the cumulative result.
RECURSIVE ReduceEvery(_, _, _)
ReduceEvery(replacements, n, lockfile) ==
  IF n = 0 THEN lockfile
  ELSE ReplaceEvery(ReduceEvery(replacements, n - 1, lockfile),
                    replacements[n].oldRef, replacements[n].newRef)

\* C4: rebaseLockfile replaces every occurrence of each matched reference,
\* not only the first, the pairs applied in discovery order to the cumulative
\* result.
C4_EveryOccurrenceReplaced ==
  op = "rebaseLockfile" /\ pc = "done" =>
    LET replacements == Replacements(input.pathToPackageRoot, input.lockfile, 1) IN
      result.value = ReduceEvery(replacements, Len(replacements), input.lockfile)

====
